---------------------------- MODULE Spec2Model ----------------------------
(***************************************************************************)
(* A model of json_explorer's Analyzer (src/json_explorer/analyzer.py):    *)
(* the field-type inference pass with its in-place date normalization, the *)
(* one-level recursive descent into nested documents, and the four         *)
(* TypeAnalyzer collators.                                                 *)
(*                                                                         *)
(* JSON values are records tagged with their Python type in field t.       *)
(* Strings carry a structured text so that strptime / isoformat / isoparse *)
(* are conversions that can fail and that change the text.                 *)
(***************************************************************************)
EXTENDS Integers, Sequences, FiniteSets, TLC

VARIABLES
    input,      \* the caller's documents as supplied (history, never written)
    data,       \* Analyzer.data of the root engine: the same documents, mutated in place
    engines,    \* engine path -> [field_map, value_lookup, collated, sub_analyzers]
    stack,      \* the call stack of analyze(): one frame per active engine
    outcome,    \* "pending" | "running" | "returned" | the name of the raised exception
    run,        \* 1: first analyze over the documents, 2: a fresh engine over them again
    first       \* the engines of the first run, kept when the second run starts

vars == <<input, data, engines, stack, outcome, run, first>>

-----------------------------------------------------------------------------
(* Bounds *)

\* The longest document list supplied to the root engine.
MaxDocs == 2

-----------------------------------------------------------------------------
(* Values *)

None == [t |-> "NoneType"]
IntV(n) == [t |-> "int", v |-> n]
\* A float is held in halves: FloatV(3) is 1.5.
FloatV(h) == [t |-> "float", h |-> h]
BoolV(b) == [t |-> "bool", b |-> b]
StrV(s) == [t |-> "str", s |-> s]
DictV(m) == [t |-> "dict", m |-> m]
ListV == [t |-> "list"]

\* Text of a string: either plain text, or a date-time text with `digits`
\* fractional digits written after the seconds (0: no fractional part).
Plain(c) == [f |-> "plain", c |-> c]
DateText(y, mo, d, us, digits) ==
    [f |-> "datetime", y |-> y, mo |-> mo, d |-> d, us |-> us, digits |-> digits]

EmptyMap == [k \in {} |-> None]

Put(f, k, v) == [x \in (DOMAIN f) \cup {k} |-> IF x = k THEN v ELSE f[x]]

Range(s) == {s[i] : i \in DOMAIN s}

\* The order in which the keys of a document are iterated (insertion order).
KeyOrder == <<"a", "b", "x", "y", "$date">>

RECURSIVE ItemsFrom(_, _)
ItemsFrom(m, i) ==
    IF i > Len(KeyOrder) THEN <<>>
    ELSE IF KeyOrder[i] \in DOMAIN m
         THEN <<KeyOrder[i]>> \o ItemsFrom(m, i + 1)
         ELSE ItemsFrom(m, i + 1)

\* dict.items(): the keys of mapping m in iteration order.
Items(m) == ItemsFrom(m, 1)

HANDLED_TYPES == {"str", "int", "float", "bool", "dict"}

WEEKDAYS == <<"Monday", "Tuesday", "Wednesday", "Thursday", "Friday",
              "Saturday", "Sunday">>

MONTHS == <<"January", "February", "March", "April", "May", "June", "July",
            "August", "September", "October", "November", "December">>

-----------------------------------------------------------------------------
(* datetime.strptime(.., DEFAULT_DATE_FORMAT), datetime.isoformat, isoparse *)

\* "%Y-%m-%dT%H:%M:%S.%f": the text must be a date-time with 1 to 6
\* fractional digits; anything else raises ValueError.
strptime(s) ==
    IF s.f = "datetime" /\ s.digits >= 1 /\ s.digits <= 6
    THEN [ok |-> TRUE, dt |-> [y |-> s.y, mo |-> s.mo, d |-> s.d, us |-> s.us]]
    ELSE [ok |-> FALSE]

\* datetime.isoformat(): the fractional part is written (6 digits) only when
\* the microseconds are not zero.
isoformat(dt) == DateText(dt.y, dt.mo, dt.d, dt.us, IF dt.us = 0 THEN 0 ELSE 6)

\* dateutil's isoparse: any date-time text, with or without a fractional part.
isoparse(s) ==
    IF s.f = "datetime"
    THEN [ok |-> TRUE, dt |-> [y |-> s.y, mo |-> s.mo, d |-> s.d, us |-> s.us]]
    ELSE [ok |-> FALSE]

IsLeap(y) == y % 4 = 0 /\ (y % 100 # 0 \/ y % 400 = 0)

DaysInMonth(y, mo) ==
    IF mo = 2 THEN (IF IsLeap(y) THEN 29 ELSE 28)
    ELSE IF mo \in {4, 6, 9, 11} THEN 30 ELSE 31

RECURSIVE DaysBeforeMonth(_, _)
DaysBeforeMonth(y, mo) ==
    IF mo = 1 THEN 0 ELSE DaysBeforeMonth(y, mo - 1) + DaysInMonth(y, mo - 1)

\* date.toordinal(): 1 is January 1st of year 1.
ToOrdinal(dt) ==
    LET p == dt.y - 1
    IN p * 365 + (p \div 4) - (p \div 100) + (p \div 400)
       + DaysBeforeMonth(dt.y, dt.mo) + dt.d

\* date.weekday(): Monday is 0.
weekday(dt) == (ToOrdinal(dt) + 6) % 7

\* The order of datetime values (min / max).
DtLeq(p, q) ==
    \/ p.y < q.y
    \/ p.y = q.y /\ p.mo < q.mo
    \/ p.y = q.y /\ p.mo = q.mo /\ p.d < q.d
    \/ p.y = q.y /\ p.mo = q.mo /\ p.d = q.d /\ p.us <= q.us

-----------------------------------------------------------------------------
(* The collators: TypeAnalyzer and its four subclasses *)

IsNone(v) == v.t = "NoneType"

NotNone(v) == v.t # "NoneType"

\* isinstance(value, type): bool is a subclass of int.
IsInstance(v, T) == IF T = "int" THEN v.t \in {"int", "bool"} ELSE v.t = T

\* A date-wrapper: a mapping whose single key is "$date".
IsDateWrapper(v) == v.t = "dict" /\ DOMAIN v.m = {"$date"}

\* A number in halves, as Python compares and adds int, bool and float.
Num(v) ==
    IF v.t = "float" THEN v.h
    ELSE IF v.t = "bool" THEN (IF v.b THEN 2 ELSE 0)
    ELSE 2 * v.v

RECURSIVE SumSeq(_)
SumSeq(s) == IF s = <<>> THEN 0 ELSE Head(s) + SumSeq(Tail(s))

\* TypeAnalyzer.__post_init__ with its two statements swapped: the copy is
\* taken after the None values were stripped.
PostInitCopyLate(data_, unexpected_) ==
    [original_data |-> SelectSeq(data_, NotNone),
     data |-> SelectSeq(data_, NotNone),
     unexpected |-> unexpected_]

\* TypeAnalyzer.__post_init__: original_data is a copy of data, data is
\* stripped of None.
PostInit(data_, unexpected_) ==
    [original_data |-> data_,
     data |-> SelectSeq(data_, NotNone),
     unexpected |-> unexpected_]

\* collections.Counter over a list.
Counter(s) == [v \in Range(s) |-> Cardinality({i \in DOMAIN s : s[i] = v})]

Extend(r, extra) ==
    [k \in (DOMAIN r) \cup (DOMAIN extra) |->
        IF k \in DOMAIN extra THEN extra[k] ELSE r[k]]

\* StringAnalyzer(data, unexpected).collate()
StringAnalyzer(data_, unexpected_) ==
    LET base == PostInit(data_, unexpected_)
    IN [err |-> "none",
        c |-> Extend(base, [cls |-> "StringAnalyzer", unique |-> Counter(base.data)])]

\* BooleanAnalyzer(data, unexpected).collate()
BooleanAnalyzer(data_, unexpected_) ==
    LET base == PostInit(data_, unexpected_)
        T == {i \in DOMAIN base.data : base.data[i].b}
    IN [err |-> "none",
        c |-> Extend(base, [cls |-> "BooleanAnalyzer",
                            true |-> Cardinality(T),
                            false |-> Len(base.data) - Cardinality(T)])]

\* max(list) / min(list): the first largest / smallest element.
MaxOf(s) ==
    LET i == CHOOSE i \in DOMAIN s :
                /\ \A j \in DOMAIN s : Num(s[j]) <= Num(s[i])
                /\ \A j \in 1..(i - 1) : Num(s[j]) < Num(s[i])
    IN s[i]

MinOf(s) ==
    LET i == CHOOSE i \in DOMAIN s :
                /\ \A j \in DOMAIN s : Num(s[i]) <= Num(s[j])
                /\ \A j \in 1..(i - 1) : Num(s[i]) < Num(s[j])
    IN s[i]

\* NumberAnalyzer(data, unexpected).collate().  avg and variance are exact
\* fractions of halves: avg = S / 2n, variance = sum((n*h - S)^2) / 4n^3;
\* std_dev is the square root of the variance.  max() of an empty list
\* raises ValueError.
NumberAnalyzer(data_, unexpected_) ==
    LET base == PostInit(data_, unexpected_)
        n == Len(base.data)
        S == SumSeq([i \in DOMAIN base.data |-> Num(base.data[i])])
        sq == SumSeq([i \in DOMAIN base.data |->
                        (n * Num(base.data[i]) - S) * (n * Num(base.data[i]) - S)])
        variance == [num |-> sq, den |-> 4 * n * n * n]
    IN IF n = 0 THEN [err |-> "ValueError"]
       ELSE [err |-> "none",
             c |-> Extend(base, [cls |-> "NumberAnalyzer",
                                 max |-> MaxOf(base.data),
                                 min |-> MinOf(base.data),
                                 avg |-> [num |-> S, den |-> 2 * n],
                                 variance |-> variance,
                                 std_dev |-> [sqrt_of |-> variance]])]

\* What isoparse(d["$date"]) does for one element of DateAnalyzer.data.
DateProblem(d) ==
    IF "$date" \notin DOMAIN d.m THEN "KeyError"
    ELSE IF d.m["$date"].t # "str" THEN "TypeError"
    ELSE IF ~isoparse(d.m["$date"].s).ok THEN "ValueError"
    ELSE "none"

\* A defaultdict(int) after `table[k] = 1` (not `+= 1`) for every k of ks.
TallyOnce(ks) == [k \in Range(ks) |-> 1]

\* A defaultdict(int) after `table[k] += 1` for every k of the list ks:
\* only the keys that were incremented are in the table.
Tally(ks) == [k \in Range(ks) |-> Cardinality({i \in DOMAIN ks : ks[i] = k})]

\* Reading table[k] of a defaultdict(int).
Lookup(table, k) == IF k \in DOMAIN table THEN table[k] ELSE 0

DayName(dt) == WEEKDAYS[weekday(dt) + 1]

MonthName(dt) == MONTHS[dt.mo]

YearOf(dt) == dt.y

\* DateAnalyzer(data, unexpected).collate(): __post_init__ parses every
\* element (the first that fails raises), collate takes min, max and the
\* three tallies.
DateAnalyzer(data_, unexpected_) ==
    LET base == PostInit(data_, unexpected_)
        bad == {i \in DOMAIN base.data : DateProblem(base.data[i]) # "none"}
        dates == [i \in DOMAIN base.data |-> isoparse(base.data[i].m["$date"].s).dt]
    IN IF bad # {}
       THEN [err |-> DateProblem(base.data[CHOOSE i \in bad : \A j \in bad : i <= j])]
       ELSE IF Len(dates) = 0 THEN [err |-> "ValueError"]
       ELSE [err |-> "none",
             c |-> Extend(base,
                    [cls |-> "DateAnalyzer",
                     dates |-> dates,
                     min |-> dates[CHOOSE i \in DOMAIN dates :
                                     /\ \A j \in DOMAIN dates : DtLeq(dates[i], dates[j])
                                     /\ \A j \in 1..(i - 1) : ~DtLeq(dates[j], dates[i])],
                     max |-> dates[CHOOSE i \in DOMAIN dates :
                                     /\ \A j \in DOMAIN dates : DtLeq(dates[j], dates[i])
                                     /\ \A j \in 1..(i - 1) : ~DtLeq(dates[i], dates[j])],
                     counts |->
                        [day |-> Tally([i \in DOMAIN dates |-> DayName(dates[i])]),
                         month |-> Tally([i \in DOMAIN dates |-> MonthName(dates[i])]),
                         year |-> Tally([i \in DOMAIN dates |-> YearOf(dates[i])])]])]

\* type_dispatch[type](data=collated, unexpected=unexpected).collate()
Dispatch(T, collated_, unexpected_) ==
    CASE T = "str" -> StringAnalyzer(collated_, unexpected_)
      [] T \in {"int", "float"} -> NumberAnalyzer(collated_, unexpected_)
      [] T = "bool" -> BooleanAnalyzer(collated_, unexpected_)
      [] T = "dict" -> DateAnalyzer(collated_, unexpected_)

-----------------------------------------------------------------------------
(* Analyzer: the engine tree over shared documents *)

\* A freshly constructed Analyzer: every mapping empty.
NewEngine ==
    [field_map |-> EmptyMap, value_lookup |-> EmptyMap,
     collated |-> EmptyMap, sub_analyzers |-> {}]

Root == <<>>

Front(p) == SubSeq(p, 1, Len(p) - 1)

Last(p) == p[Len(p)]

\* `not self.parent` with the parent test dropped.
NoParentAlways(path) == TRUE

\* `not self.parent`: only the root engine has no parent.
NoParent(path) == path = Root

\* `key in d` for an element of an engine's data.
HasKey(d, key) == d.t = "dict" /\ key \in DOMAIN d.m

\* The indices of the parent's data that a child engine under `key` keeps:
\* [d[key] for d in self.data if key in d].
Kept(parentData, key) ==
    SelectSeq([i \in DOMAIN parentData |-> i],
              LAMBDA i : HasKey(parentData[i], key))

\* Analyzer.data of the engine at `path`, as a view of the root's documents d:
\* a child holds the very objects of its parent's documents.
RECURSIVE DataOf(_, _)
DataOf(d, path) ==
    IF path = Root THEN d
    ELSE LET pd == DataOf(d, Front(path))
             idx == Kept(pd, Last(path))
         IN [j \in DOMAIN idx |-> pd[idx[j]].m[Last(path)]]

\* self.data[i][key] = val with the index lost at the root: the value is
\* stored under key in every document.
RECURSIVE WriteEverywhere(_, _, _, _, _)
WriteEverywhere(d, path, i, key, val) ==
    IF path = Root
    THEN [j \in DOMAIN d |-> DictV(Put(d[j].m, key, val))]
    ELSE LET pd == DataOf(d, Front(path))
             pi == Kept(pd, Last(path))[i]
         IN WriteEverywhere(d, Front(path), pi, Last(path),
                            DictV(Put(pd[pi].m[Last(path)].m, key, val)))

\* self.data[i][key] = val in the engine at `path`, seen from the root's
\* documents d.
RECURSIVE Write(_, _, _, _, _)
Write(d, path, i, key, val) ==
    IF path = Root
    THEN [d EXCEPT ![i] = DictV(Put(d[i].m, key, val))]
    ELSE LET pd == DataOf(d, Front(path))
             pi == Kept(pd, Last(path))[i]
         IN Write(d, Front(path), pi, Last(path),
                  DictV(Put(pd[pi].m[Last(path)].m, key, val)))

\* One frame of analyze(): the engine, the keys of data[0] still to visit,
\* and, once the field's type is decided ("call"), the pending
\* type_analyzer(key, type) and whether it is called inside the try block.
Frame(path, keys) ==
    [path |-> path, keys |-> keys, phase |-> "field", type |-> "", intry |-> FALSE]

Top(st) == st[Len(st)]

SetTop(st, fr) == [st EXCEPT ![Len(st)] = fr]

\* The loop moves to the next key of data[0].
Advance(st) ==
    SetTop(st, [Top(st) EXCEPT !.keys = Tail(@), !.phase = "field",
                               !.type = "", !.intry = FALSE])

Pending(st, T, intry) ==
    SetTop(st, [Top(st) EXCEPT !.phase = "call", !.type = T, !.intry = intry])

\* The machine: the part of the state one analyze() call reads and writes.
Machine(d) ==
    [data |-> d, engines |-> [p \in {Root} |-> NewEngine],
     stack |-> <<>>, outcome |-> "pending"]

CurKey(m) == Head(Top(m.stack).keys)

CurData(m) == DataOf(m.data, Top(m.stack).path)

\* The (key, value) pair of data[0].items() being visited.
CurValue(m) == CurData(m)[1].m[CurKey(m)]

InField(m) ==
    /\ m.outcome = "running"
    /\ Top(m.stack).keys # <<>>
    /\ Top(m.stack).phase = "field"

-----------------------------------------------------------------------------
(* Analyzer.analyze and Analyzer.type_analyzer, step by step *)

\* analyze() is entered: self.data[0] raises IndexError on an empty list.
Begin(m) ==
    IF Len(m.data) = 0
    THEN [m EXCEPT !.outcome = "IndexError"]
    ELSE [m EXCEPT !.outcome = "running",
                   !.stack = <<Frame(Root, Items(m.data[1].m))>>]

\* The value is of no handled type, or it is a nested document (not a
\* date-wrapper) and the engine has a parent: nothing is done for the key.
CanSkip(m) ==
    /\ InField(m)
    /\ \/ CurValue(m).t \notin HANDLED_TYPES
       \/ /\ CurValue(m).t = "dict"
          /\ ~IsDateWrapper(CurValue(m))
          /\ ~NoParent(Top(m.stack).path)

SkipField(m) == [m EXCEPT !.stack = Advance(@)]

DateWrapper(text) == DictV([k \in {"$date"} |-> StrV(text)])

\* What `item[key]` and the strptime of a string value do for one element
\* of the rewriting loop.
ItemProblem(item, key) ==
    IF item.t # "dict" THEN "TypeError"
    ELSE IF key \notin DOMAIN item.m THEN "KeyError"
    ELSE IF item.m[key].t = "str" /\ ~strptime(item.m[key].s).ok THEN "ValueError"
    ELSE "none"

\* The rewriting loop over elements i .. stop-1: every string value at key
\* becomes {"$date": strptime(value).isoformat()}.
RECURSIVE RewriteUpTo(_, _, _, _, _)
RewriteUpTo(d, path, key, i, stop) ==
    IF i >= stop THEN d
    ELSE LET old == DataOf(d, path)[i].m[key]
         IN RewriteUpTo(
                IF old.t = "str"
                THEN Write(d, path, i, key, DateWrapper(isoformat(strptime(old.s).dt)))
                ELSE d,
                path, key, i + 1, stop)

CanNormalize(m) == InField(m) /\ CurValue(m).t = "str"

\* The try block up to the call of type_analyzer: strptime of the sampled
\* value, then the rewriting loop.  A ValueError is caught (the field stays
\* a string field, whatever was rewritten so far); any other exception
\* leaves analyze().
Normalize(m) ==
    LET path == Top(m.stack).path
        key == CurKey(m)
        view == CurData(m)
        bad == {i \in DOMAIN view : ItemProblem(view[i], key) # "none"}
        stop == IF bad = {} THEN Len(view) + 1
                ELSE CHOOSE i \in bad : \A j \in bad : i <= j
        d2 == RewriteUpTo(m.data, path, key, 1, stop)
    IN IF ~strptime(CurValue(m).s).ok
       THEN [m EXCEPT !.stack = Pending(@, "str", FALSE)]
       ELSE IF bad = {}
       THEN [m EXCEPT !.data = d2, !.stack = Pending(@, "dict", TRUE)]
       ELSE IF ItemProblem(view[stop], key) = "ValueError"
       THEN [m EXCEPT !.data = d2, !.stack = Pending(@, "str", FALSE)]
       ELSE [m EXCEPT !.data = d2, !.outcome = ItemProblem(view[stop], key)]

\* entry.get(path, None)
Get(entry, key) == IF key \in DOMAIN entry.m THEN entry.m[key] ELSE None

\* type_analyzer(path, type) on engine e whose data is `view`: the field's
\* type is recorded first, then the values are split and the collator built.
type_analyzer(e, view, key, T) ==
    LET e1 == [e EXCEPT !.field_map = Put(@, key, T),
                        !.value_lookup =
                            Put(@, T, Append(IF T \in DOMAIN @ THEN @[T] ELSE <<>>, key))]
        values == [i \in DOMAIN view |-> Get(view[i], key)]
        unexpected_ == SelectSeq(values, LAMBDA v : NotNone(v) /\ ~IsInstance(v, T))
        collated_ == SelectSeq(values, LAMBDA v : ~(NotNone(v) /\ ~IsInstance(v, T)))
        r == Dispatch(T, collated_, unexpected_)
    IN IF \E i \in DOMAIN view : view[i].t # "dict"
       THEN [e |-> e1, err |-> "AttributeError"]
       ELSE IF r.err # "none"
       THEN [e |-> e1, err |-> r.err]
       ELSE [e |-> [e1 EXCEPT !.collated = Put(@, key, r.c)], err |-> "none"]

CanTypeAnalyze(m) ==
    /\ m.outcome = "running"
    /\ Top(m.stack).keys # <<>>
    /\ \/ Top(m.stack).phase = "call"
       \/ /\ Top(m.stack).phase = "field"
          /\ \/ CurValue(m).t \in HANDLED_TYPES \ {"dict", "str"}
             \/ IsDateWrapper(CurValue(m))

\* The call of type_analyzer: type(value) for a scalar, dict for a
\* date-wrapper, or the pending call left by Normalize.  Inside the try block
\* a ValueError is caught and type_analyzer(key, str) is called next.
TypeAnalyze(m) ==
    LET fr == Top(m.stack)
        T == IF fr.phase = "call" THEN fr.type
             ELSE IF CurValue(m).t = "dict" THEN "dict" ELSE CurValue(m).t
        r == type_analyzer(m.engines[fr.path], CurData(m), CurKey(m), T)
        m1 == [m EXCEPT !.engines[fr.path] = r.e]
    IN IF r.err = "none" THEN [m1 EXCEPT !.stack = Advance(@)]
       ELSE IF r.err = "ValueError" /\ fr.phase = "call" /\ fr.intry
       THEN [m1 EXCEPT !.stack = Pending(@, "str", FALSE)]
       ELSE [m1 EXCEPT !.outcome = r.err]

CanDescend(m) ==
    /\ InField(m)
    /\ CurValue(m).t = "dict"
    /\ ~IsDateWrapper(CurValue(m))
    /\ NoParent(Top(m.stack).path)

\* Analyzer(data=[d[key] for d in self.data if key in d], parent=self)
\* is built and its analyze() entered.  `key in d` raises TypeError for an
\* element that is no container.
Descend(m) ==
    LET child == Append(Top(m.stack).path, CurKey(m))
        pd == CurData(m)
    IN IF \E i \in DOMAIN pd : pd[i].t \in {"NoneType", "int", "float", "bool"}
       THEN [m EXCEPT !.outcome = "TypeError"]
       ELSE [m EXCEPT !.engines = Put(@, child, NewEngine),
                      !.stack = Append(@, Frame(child, Items(DataOf(m.data, child)[1].m)))]

CanReturn(m) == m.outcome = "running" /\ Top(m.stack).keys = <<>>

\* analyze() returns self: to the caller, or to the parent engine, which
\* stores the child in sub_analyzers[key] and goes on with its next key.
Return(m) ==
    IF Len(m.stack) = 1
    THEN [m EXCEPT !.stack = <<>>, !.outcome = "returned"]
    ELSE LET parent == m.stack[Len(m.stack) - 1]
         IN [m EXCEPT !.engines[parent.path].sub_analyzers = @ \cup {Head(parent.keys)},
                      !.stack = Advance(Front(@))]

\* The one step analyze() takes next.
Step(m) ==
    CASE m.outcome = "pending" -> Begin(m)
      [] CanReturn(m) -> Return(m)
      [] CanSkip(m) -> SkipField(m)
      [] CanNormalize(m) -> Normalize(m)
      [] CanTypeAnalyze(m) -> TypeAnalyze(m)
      [] CanDescend(m) -> Descend(m)

\* analyze() run to its end.
RECURSIVE Run(_)
Run(m) == IF m.outcome \in {"pending", "running"} THEN Run(Step(m)) ELSE m

-----------------------------------------------------------------------------
(* The documents supplied *)

Date1 == DateText(2021, 1, 5, 0, 6)

Date2 == DateText(2021, 2, 10, 250000, 6)

Absent == [t |-> "absent"]

Leaves ==
    {None, IntV(1), FloatV(3), BoolV(TRUE), StrV(Plain("hello")),
     StrV(Date1), StrV(Date2),
     DateWrapper(isoformat(strptime(Date1).dt)), DateWrapper(Plain("garbage")),
     ListV}

Nested ==
    {DictV(EmptyMap),
     DictV([k \in {"x"} |-> StrV(Date1)]),
     DictV([k \in {"x"} |-> StrV(Plain("hello"))]),
     DictV([k \in {"x"} |-> IntV(1)]),
     DictV([k \in {"x"} |-> None]),
     DictV([k \in {"x"} |-> DictV([j \in {"y"} |-> IntV(1)])]),
     DictV([k \in {"$date", "x"} |->
            IF k = "x" THEN IntV(1) ELSE StrV(isoformat(strptime(Date1).dt))])}

ValsA == Leaves \cup Nested \cup {Absent}

ValsB == {StrV(Date2), IntV(2), Absent}

RootDoc(va, vb) ==
    DictV([k \in {x \in {"a", "b"} : (IF x = "a" THEN va ELSE vb) # Absent} |->
            IF k = "a" THEN va ELSE vb])

RootDocs == {RootDoc(va, vb) : va \in ValsA, vb \in ValsB}

DocLists == UNION {[1..n -> RootDocs] : n \in 0..MaxDocs}

-----------------------------------------------------------------------------
(* The specification *)

M == [data |-> data, engines |-> engines, stack |-> stack, outcome |-> outcome]

Set(m) ==
    /\ data' = m.data
    /\ engines' = m.engines
    /\ stack' = m.stack
    /\ outcome' = m.outcome
    /\ UNCHANGED <<input, run, first>>

Init ==
    /\ input \in DocLists
    /\ data = input
    /\ engines = Machine(input).engines
    /\ stack = <<>>
    /\ outcome = "pending"
    /\ run = 1
    /\ first = [p \in {} |-> NewEngine]

BeginStep == outcome = "pending" /\ Set(Begin(M))

SkipStep == CanSkip(M) /\ Set(SkipField(M))

NormalizeStep == CanNormalize(M) /\ Set(Normalize(M))

TypeAnalyzeStep == CanTypeAnalyze(M) /\ Set(TypeAnalyze(M))

DescendStep == CanDescend(M) /\ Set(Descend(M))

ReturnStep == CanReturn(M) /\ Set(Return(M))

\* The caller builds a fresh Analyzer over the documents as the first run
\* left them.
Reanalyze ==
    /\ outcome = "returned"
    /\ run = 1
    /\ run' = 2
    /\ first' = engines
    /\ engines' = Machine(data).engines
    /\ stack' = <<>>
    /\ outcome' = "pending"
    /\ UNCHANGED <<input, data>>

Next ==
    \/ BeginStep
    \/ SkipStep
    \/ NormalizeStep
    \/ TypeAnalyzeStep
    \/ DescendStep
    \/ ReturnStep
    \/ Reanalyze

Spec == Init /\ [][Next]_vars

-----------------------------------------------------------------------------
(* Properties *)

Final == outcome \notin {"pending", "running"}

\* The values type_analyzer reads for field f in the engine at path p.
ValuesAt(d, p, f) ==
    LET view == DataOf(d, p)
    IN [i \in DOMAIN view |-> IF HasKey(view[i], f) THEN view[i].m[f] ELSE None]

Collators == {<<p, f>> \in (DOMAIN engines) \X Range(KeyOrder) :
                f \in DOMAIN engines[p].collated}

\* The kind of a value, date-wrappers and other nested documents apart.
Kind(v) ==
    CASE v.t = "NoneType" -> "null"
      [] v.t = "str" -> "string"
      [] v.t = "int" -> "integer"
      [] v.t = "float" -> "floating-point"
      [] v.t = "bool" -> "boolean"
      [] v.t = "list" -> "list"
      [] v.t = "dict" -> IF IsDateWrapper(v) THEN "date" ELSE "nested-document"

\* The inferred kind a recorded field type stands for.
KindOfType(T) ==
    CASE T = "str" -> "string"
      [] T = "int" -> "integer"
      [] T = "float" -> "floating-point"
      [] T = "bool" -> "boolean"
      [] T = "dict" -> "date"

\* C1: for every field with a collator, the expected list holds exactly the
\* documents' values that are null (or absent) or whose kind equals the
\* field's inferred kind, and the unexpected list holds the others, the
\* kinds string, integer, floating-point, boolean and date being distinct.
C1_PartitionByKind ==
    \A c \in Collators :
        LET e == engines[c[1]]
            vals == ValuesAt(data, c[1], c[2])
            want == KindOfType(e.field_map[c[2]])
        IN /\ e.collated[c[2]].original_data =
                SelectSeq(vals, LAMBDA v : IsNone(v) \/ Kind(v) = want)
           /\ e.collated[c[2]].unexpected =
                SelectSeq(vals, LAMBDA v : ~(IsNone(v) \/ Kind(v) = want))

\* C2: for every field with a collator, over the engine's document list D:
\* len(original) + len(unexpected) = len(D); original is data plus the nulls
\* stripped from it, their number being >= 0; data holds no null.
C2_Counts ==
    \A c \in Collators :
        LET col == engines[c[1]].collated[c[2]]
            nulls == {i \in DOMAIN col.original_data : IsNone(col.original_data[i])}
        IN /\ Len(col.original_data) + Len(col.unexpected) = Len(DataOf(data, c[1]))
           /\ Len(col.original_data) - Len(col.data) >= 0
           /\ Len(col.original_data) = Len(col.data) + Cardinality(nulls)
           /\ col.data = SelectSeq(col.original_data, NotNone)
           /\ \A i \in DOMAIN col.data : ~IsNone(col.data[i])

\* C2 witness: a collator whose expected list holds a null that was stripped.
C2_Witness ==
    \E c \in Collators :
        LET col == engines[c[1]].collated[c[2]]
        IN Len(col.data) < Len(col.original_data) /\ Len(col.data) > 0

\* The sampled value of root field k, as supplied, is a string in the date
\* format.
FirstParses(docs, k) ==
    /\ Len(docs) > 0
    /\ HasKey(docs[1], k)
    /\ docs[1].m[k].t = "str"
    /\ strptime(docs[1].m[k].s).ok

\* C3: if the first document's value at k is a string in the date format,
\* then when analyze returns every document's string at k has become a
\* date-wrapper, k's recorded kind is date and a Date collator is stored.
C3_NormalizedWhenReturned ==
    (run = 1 /\ outcome = "returned") =>
        \A k \in Range(KeyOrder) :
            FirstParses(input, k) =>
                /\ \A i \in DOMAIN input :
                     (HasKey(input[i], k) /\ input[i].m[k].t = "str")
                        => IsDateWrapper(data[i].m[k])
                /\ k \in DOMAIN engines[Root].field_map
                /\ engines[Root].field_map[k] = "dict"
                /\ k \in DOMAIN engines[Root].collated
                /\ engines[Root].collated[k].cls = "DateAnalyzer"

\* What a caller reads off an engine tree: kinds, collators, children.
Results(es) ==
    [p \in DOMAIN es |->
        [field_map |-> es[p].field_map, collated |-> es[p].collated,
         sub_analyzers |-> es[p].sub_analyzers]]

\* C4: a second analyze over the documents as the first (completed) run left
\* them returns the same kinds, expected and unexpected lists and aggregates.
C4_SecondRunSame ==
    (run = 2 /\ Final) => (outcome = "returned" /\ Results(engines) = Results(first))

\* A date-wrapper whose "$date" text does not parse.
Malformed(v) ==
    /\ IsDateWrapper(v)
    /\ v.m["$date"].t = "str"
    /\ ~isoparse(v.m["$date"].s).ok

\* C5: when a field sampled as a date (a date-wrapper, or a string in the
\* date format) holds a malformed date-wrapper in some document, analyze
\* does not return normally.
C5_ParseErrorSurfaces ==
    \A k \in Range(KeyOrder) :
        ( /\ run = 1
          /\ Len(input) > 0
          /\ HasKey(input[1], k)
          /\ (IsDateWrapper(input[1].m[k]) \/ FirstParses(input, k))
          /\ \E i \in DOMAIN input : HasKey(input[i], k) /\ Malformed(input[i].m[k]) )
        => outcome # "returned"

\* Document i without its key k.
RemoveKey(docs, i, k) ==
    [docs EXCEPT ![i] = DictV([x \in (DOMAIN docs[i].m) \ {k} |-> docs[i].m[x]])]

\* C6: removing a key whose value is null from a non-first document does
\* not change what analyze does: same outcome, same kinds, lists, aggregates.
C6_AbsentAsNull ==
    (run = 1 /\ Final) =>
        \A i \in 2..Len(input) : \A k \in DOMAIN input[1].m :
            (HasKey(input[i], k) /\ IsNone(input[i].m[k])) =>
                LET alt == Run(Machine(RemoveKey(input, i, k)))
                IN /\ alt.outcome = outcome
                   /\ Results(alt.engines) = Results(engines)

IsNestedDoc(v) == v.t = "dict" /\ ~IsDateWrapper(v)

\* C7: recursion is one level deep.  A child at a nested-document field of
\* its first document skips it; after analyze returns, the root's children
\* are exactly the nested-document fields of the first document, no other
\* engine exists, every child has no children, and a nested-document field
\* of a child's first document has no kind and no collator recorded.
C7_OneLevel ==
    /\ ( /\ InField(M)
         /\ Top(stack).path # Root
         /\ IsNestedDoc(CurValue(M)) )
       => (CanSkip(M) /\ ~CanDescend(M) /\ SkipField(M).outcome = "running")
    /\ outcome = "returned" =>
        LET kids == {k \in DOMAIN data[1].m : IsNestedDoc(data[1].m[k])}
        IN /\ engines[Root].sub_analyzers = kids
           /\ DOMAIN engines = {Root} \cup {<<k>> : k \in kids}
           /\ \A k \in kids :
                /\ engines[<<k>>].sub_analyzers = {}
                /\ \A f \in DOMAIN data[1].m[k].m :
                     IsNestedDoc(data[1].m[k].m[f]) =>
                        /\ f \notin DOMAIN engines[<<k>>].field_map
                        /\ f \notin DOMAIN engines[<<k>>].collated

\* C7 witness: analyze returned, and a child's first document holds a nested
\* document.
C7_Witness ==
    /\ outcome = "returned"
    /\ \E k \in engines[Root].sub_analyzers :
         \E f \in DOMAIN data[1].m[k].m : IsNestedDoc(data[1].m[k].m[f])

DateCollators == {c \in Collators : engines[c[1]].collated[c[2]].cls = "DateAnalyzer"}

RECURSIVE SumTable(_, _)
SumTable(table, keys) ==
    IF keys = {} THEN 0
    ELSE LET k == CHOOSE k \in keys : TRUE
         IN table[k] + SumTable(table, keys \ {k})

\* The conformant (non-null) dates of collator col, parsed.
DatesOf(col) == [i \in DOMAIN col.data |-> isoparse(col.data[i].m["$date"].s).dt]

\* The number of conformant dates of collator col falling on weekday w.
OnDay(col, w) ==
    Cardinality({i \in DOMAIN col.data : DayName(DatesOf(col)[i]) = w})

\* The number of conformant dates of collator col falling in month mo.
InMonth(col, mo) ==
    Cardinality({i \in DOMAIN col.data : MonthName(DatesOf(col)[i]) = mo})

\* C8 as claimed: after collate the weekday table has an entry for each of
\* the 7 weekday names and the month table one for each of the 12 month
\* names, each the number of conformant dates in the bucket (0 when none),
\* and each table sums to the conformant date count.
C8_AllBucketsPresent ==
    \A c \in DateCollators :
        LET col == engines[c[1]].collated[c[2]]
        IN /\ DOMAIN col.counts.day = Range(WEEKDAYS)
           /\ DOMAIN col.counts.month = Range(MONTHS)
           /\ \A w \in DOMAIN col.counts.day : col.counts.day[w] = OnDay(col, w)
           /\ \A mo \in DOMAIN col.counts.month :
                col.counts.month[mo] = InMonth(col, mo)
           /\ SumTable(col.counts.day, DOMAIN col.counts.day) = Len(col.data)
           /\ SumTable(col.counts.month, DOMAIN col.counts.month) = Len(col.data)

\* C8 amended: after collate the weekday (month) table has an entry exactly
\* for each weekday (month) name on which a conformant date falls, equal to
\* the number of conformant dates in that bucket; a bucket no date falls in
\* has no entry and reads as 0; each table sums to the conformant date count.
C8_BucketsOfData ==
    \A c \in DateCollators :
        LET col == engines[c[1]].collated[c[2]]
        IN /\ DOMAIN col.counts.day =
                {w \in Range(WEEKDAYS) : OnDay(col, w) > 0}
           /\ DOMAIN col.counts.month =
                {mo \in Range(MONTHS) : InMonth(col, mo) > 0}
           /\ \A w \in Range(WEEKDAYS) :
                Lookup(col.counts.day, w) = OnDay(col, w)
           /\ \A mo \in Range(MONTHS) :
                Lookup(col.counts.month, mo) = InMonth(col, mo)
           /\ SumTable(col.counts.day, DOMAIN col.counts.day) = Len(col.data)
           /\ SumTable(col.counts.month, DOMAIN col.counts.month) = Len(col.data)

\* C8 witness: a Date collator over two dates of one weekday, the other six
\* weekdays without a date.
C8_Witness ==
    \E c \in DateCollators :
        LET col == engines[c[1]].collated[c[2]]
        IN /\ Len(col.data) = 2
           /\ \E w \in DOMAIN col.counts.day : col.counts.day[w] = 2

\* C9: when type_analyzer is about to read a field whose sampled value is a
\* string in the date format, no document of the engine holds a rewritten
\* date-wrapper at the field while another still holds a string there.
C9_RewriteCompleteBeforeRead ==
    ( /\ run = 1
      /\ outcome = "running"
      /\ Top(stack).keys # <<>>
      /\ Top(stack).phase = "call"
      /\ FirstParses(DataOf(input, Top(stack).path), CurKey(M)) )
    => LET old == ValuesAt(input, Top(stack).path, CurKey(M))
           new == ValuesAt(data, Top(stack).path, CurKey(M))
       IN ~\E i, j \in DOMAIN new :
              /\ old[i].t = "str"
              /\ new[i].t = "dict"
              /\ new[j].t = "str"

\* The documents `new` of an engine (depth 0: the root) differ from `old`
\* only by strings in the date format replaced by their date-wrapper, at a
\* field whose sampled value is such a string, in this engine's documents or
\* in the nested documents it shares with a child engine.
RECURSIVE FrameOK(_, _, _)
FrameOK(old, new, depth) ==
    /\ Len(new) = Len(old)
    /\ \A i \in DOMAIN old :
         IF old[i].t # "dict" THEN new[i] = old[i]
         ELSE /\ new[i].t = "dict"
              /\ DOMAIN new[i].m = DOMAIN old[i].m
              /\ \A k \in DOMAIN old[i].m :
                   \/ new[i].m[k] = old[i].m[k]
                   \/ /\ FirstParses(old, k)
                      /\ old[i].m[k].t = "str"
                      /\ strptime(old[i].m[k].s).ok
                      /\ new[i].m[k] = DateWrapper(isoformat(strptime(old[i].m[k].s).dt))
                   \/ /\ depth = 0
                      /\ HasKey(old[1], k)
                      /\ IsNestedDoc(old[1].m[k])
                      /\ FrameOK(DataOf(old, <<k>>), DataOf(new, <<k>>), 1)

\* C10: analyze changes the caller's documents only by replacing a string
\* by a date-wrapper at a field whose first-document value parsed as a date,
\* at the root or inside a nested document shared with a child engine; the
\* number of documents, every key set and every other value stay as
\* supplied, also when analyze raises.
C10_Frame == FrameOK(input, data, 0)

\* C10 witness: analyze raised after a child engine rewrote a string inside
\* a nested document of the caller's list.
C10_Witness ==
    /\ Final
    /\ outcome # "returned"
    /\ \E i \in DOMAIN input :
         /\ HasKey(input[i], "a")
         /\ IsNestedDoc(input[i].m["a"])
         /\ data[i].m["a"] # input[i].m["a"]

=============================================================================
